---- MODULE Spec2Model ----
(***************************************************************************)
(* Model of vue/src/use/span-explore.ts (useSpanExplore): the reactive     *)
(* derivation pipeline raw items -> filteredItems -> sortedItems ->        *)
(* pageItems, the type aggregation, the error projection and the two       *)
(* watchers that keep pager.numItem up to date.                            *)
(*                                                                         *)
(* JavaScript values are tagged records ([t |-> "undefined"], strings,     *)
(* numbers, dates, objects).  Strings that the code takes apart (system    *)
(* fields, column names) are sequences of tokens, words and separators,    *)
(* so that splitting and suffix tests are computed, not assumed.           *)
(***************************************************************************)
EXTENDS Integers, Sequences, FiniteSets

VARIABLES
  data,        \* useWatchAxios: the query result (undefined or {groups})
  error,       \* useWatchAxios: the error of the last request
  typeFilter,  \* shallowRef<string[]>
  order,       \* useOrder: [column, desc]
  pager,       \* usePager: [page, perPage, numItem]
  sortedItems, \* the cached value of the sortedItems computed
  pending,     \* watchers queued for the next pre-render flush
  flushed      \* the watcher callbacks the last flush ran, in the order run

vars == <<data, error, typeFilter, order, pager, sortedItems, pending, flushed>>

-----------------------------------------------------------------------------
(* Bounds *)

\* longest raw item collection a query result holds
MaxItems == 3
\* longest raw item collection while the watchers are followed
MaxWatched == 2
\* highest page the UI selects
MaxPage == 2

-----------------------------------------------------------------------------
(* JavaScript values *)

Undefined == [t |-> "undefined"]
Null == [t |-> "null"]
Str(s) == [t |-> "string", s |-> s]
Num(n) == [t |-> "number", n |-> n]
Throw == [t |-> "throw"]

\* property access v[name] on a non-nullish value: undefined when absent
Prop(v, name) == IF name \in DOMAIN v THEN v[name] ELSE Undefined

IsNullish(v) == v.t \in {"undefined", "null"}

\* !v for the values the pipeline tests: undefined, null and "" are falsy
IsFalsy(v) ==
  \/ IsNullish(v)
  \/ (v.t = "string" /\ v.s = <<>>)

Min(a, b) == IF a < b THEN a ELSE b

\* Array.prototype.indexOf: 0-based index of the first occurrence, or -1
IndexOf(seq, x) ==
  IF \E i \in 1..Len(seq) : seq[i] = x
  THEN (CHOOSE i \in 1..Len(seq) : seq[i] = x /\ \A j \in 1..(i - 1) : seq[j] # x) - 1
  ELSE -1

\* Array.prototype.slice(start, end) for start, end >= 0
Slice(seq, start, end) == SubSeq(seq, start + 1, Min(end, Len(seq)))

\* String.prototype.endsWith on token strings
EndsWith(s, suffix) ==
  /\ Len(suffix) <= Len(s)
  /\ SubSeq(s, Len(s) - Len(suffix) + 1, Len(s)) = suffix

-----------------------------------------------------------------------------
(* Well-known keys (models/otelattr xkey) and the item fixture *)

spanSystem == <<"span", ".", "system">>
spanTime == <<"span", ".", "time">>
spanCountPerMin == <<"span", ".", "count", "_", "per", "_", "min">>

Separators == {".", "_", ":"}

\* system strings: type, optionally followed by a separator and a detail
DbPostgres == Str(<<"db", ".", "postgres">>)
DbMysql == Str(<<"db", ".", "mysql">>)
HttpClient == Str(<<"http", ".", "client">>)
EmptyString == Str(<<>>)

\* date-like strings of the time column, one of them unparseable
Day1 == Str("1970-01-02T00:00:00Z")
Day2 == Str("1970-01-03T00:00:00Z")
BadDate == Str("n/a")

ExploreItem(system, count, time) ==
  [system |-> system, count |-> Num(count), time |-> time]

\* the span groups a query result is built from
ItemPool ==
  { ExploreItem(HttpClient, 1, Day2),
    ExploreItem(DbPostgres, 2, BadDate),
    ExploreItem(DbMysql, 1, Day1),
    ExploreItem(Undefined, 2, Day2),
    ExploreItem(EmptyString, 1, BadDate) }

\* the span groups the back end returns while the watchers are followed
WatchedPool ==
  { ExploreItem(HttpClient, 1, Day2),
    ExploreItem(DbPostgres, 2, BadDate) }

SeqsUpTo(S, n) == UNION { [1..k -> S] : k \in 0..n }

\* data.groups of a query result: up to n span groups of a pool
QueryResults(pool, n) == SeqsUpTo(pool, n)

\* item[key] for a well-known key; any other field is absent
ItemField(item, key) ==
  IF key = spanSystem THEN item.system
  ELSE IF key = spanCountPerMin THEN item.count
  ELSE IF key = spanTime THEN item.time
  ELSE Undefined

\* splitTypeSystem(system)[0]: the tokens before the first separator
splitTypeSystem(s) ==
  IF \E i \in 1..Len(s) : s[i] \in Separators
  THEN SubSeq(s, 1, (CHOOSE i \in 1..Len(s) :
                       s[i] \in Separators /\ \A j \in 1..(i - 1) : s[j] \notin Separators) - 1)
  ELSE s

-----------------------------------------------------------------------------
(* items and filteredItems *)

\* data.value?.groups ?? []
itemsOf(d) ==
  IF IsNullish(d) \/ "groups" \notin DOMAIN d THEN <<>> ELSE d.groups

\* (mutant) an item without a system field is dropped by a non-empty filter
keepItemTypedOnly(item, filter) ==
  LET system == ItemField(item, spanSystem)
  IN IF IsFalsy(system) THEN FALSE
     ELSE IndexOf(filter, splitTypeSystem(system.s)) >= 0

\* the predicate of items.value.filter(...)
keepItem(item, filter) ==
  LET system == ItemField(item, spanSystem)
  IN IF IsFalsy(system) THEN TRUE
     ELSE IndexOf(filter, splitTypeSystem(system.s)) >= 0

filteredItemsOf(its, filter) ==
  IF Len(filter) = 0 THEN its
  ELSE SelectSeq(its, LAMBDA item : keepItem(item, filter))

-----------------------------------------------------------------------------
(* sortedItems: lodash orderBy with a date-aware iteratee *)

hasField(s, field) == EndsWith(s, <<".", field>>) \/ EndsWith(s, <<"_", field>>)

isDateField(s) == s = spanTime \/ hasField(s, "time") \/ hasField(s, "date")

\* Date.parse of the fixture's date strings; anything else does not parse
ParsesAsDate(str) == str \in {"1970-01-02T00:00:00Z", "1970-01-03T00:00:00Z"}
DateParse(str) ==
  IF str = "1970-01-02T00:00:00Z" THEN 86400000
  ELSE IF str = "1970-01-03T00:00:00Z" THEN 2 * 86400000
  ELSE 0

\* new Date(val): an Invalid Date (time value NaN) has valid = FALSE
NewDate(val) ==
  IF val.t = "number" THEN [t |-> "date", valid |-> TRUE, ms |-> val.n]
  ELSE IF val.t = "null" THEN [t |-> "date", valid |-> TRUE, ms |-> 0]
  ELSE IF val.t = "string" /\ ParsesAsDate(val.s)
       THEN [t |-> "date", valid |-> TRUE, ms |-> DateParse(val.s)]
  ELSE [t |-> "date", valid |-> FALSE, ms |-> 0]

\* the iteratee passed to orderBy
sortKey(item, column) ==
  LET val == ItemField(item, column)
  IN IF isDateField(column) THEN NewDate(val) ELSE val

\* value === other: two Date objects are never the same object
StrictEq(value, other) == value.t # "date" /\ value = other

\* value > other on numbers and dates; a comparison with NaN is false
IsNumeric(v) == v.t = "number" \/ (v.t = "date" /\ v.valid)
ToNumber(v) == IF v.t = "number" THEN v.n ELSE v.ms
JsGreater(value, other) ==
  IsNumeric(value) /\ IsNumeric(other) /\ ToNumber(value) > ToNumber(other)

\* lodash compareAscending on defined, non-null, non-symbol or undefined values
compareAscending(value, other) ==
  IF StrictEq(value, other) THEN 0
  ELSE IF JsGreater(value, other) \/ value.t = "undefined" THEN 1
  ELSE IF JsGreater(other, value) \/ other.t = "undefined" THEN -1
  ELSE 0

\* lodash compareMultiple with one criterion: ties fall back to the index
compareMultiple(object, other, desc) ==
  LET result == compareAscending(object.criteria, other.criteria)
  IN IF result # 0 THEN (IF desc THEN -result ELSE result)
     ELSE object.index - other.index

Perms(n) == { p \in [1..n -> 1..n] : \A i, j \in 1..n : p[i] = p[j] => i = j }

\* Array.prototype.sort of the entries {criteria, index} under compareMultiple.
\* The comparer never returns 0 for two entries.  When it orders them
\* consistently, each entry has its own number of predecessors (its rank) and
\* there is exactly one sorted arrangement; when it does not, the order is
\* implementation-defined.
rankOf(entries, desc) ==
  [i \in 1..Len(entries) |->
     1 + Cardinality({ j \in 1..Len(entries) :
                         j # i /\ compareMultiple(entries[j], entries[i], desc) < 0 })]

baseSortBy(n, rank) ==
  IF \A i, j \in 1..n : rank[i] = rank[j] => i = j
  THEN { [r \in 1..n |-> CHOOSE i \in 1..n : rank[i] = r] }
  ELSE Perms(n)

\* orderBy(collection, iteratee, direction): the arrangements it can return
\* (each intermediate value is bound once, as a member of a singleton set)
orderBy(collection, column, desc) ==
  UNION { UNION { { [i \in 1..Len(collection) |-> collection[p[i]]] :
                      p \in baseSortBy(Len(collection), rank) } :
                  rank \in { rankOf(entries, desc) } } :
          entries \in { [i \in 1..Len(collection) |->
                          [criteria |-> sortKey(collection[i], column), index |-> i]] } }

\* (mutant) the sort keeps one item per sort key, as uniqBy would
sortedItemsOfUniq(filtered, ord) ==
  IF IsFalsy(ord.column) THEN {filtered}
  ELSE { SelectSeq(sorted, LAMBDA item :
           \A i, j \in 1..Len(sorted) :
             (sorted[j] = item /\ i < j) =>
               ItemField(sorted[i], ord.column.s) # ItemField(item, ord.column.s)) :
         sorted \in orderBy(filtered, ord.column.s, ord.desc) }

\* the values the sortedItems computed can take
sortedItemsOf(filtered, ord) ==
  IF IsFalsy(ord.column) THEN {filtered}
  ELSE UNION { orderBy(collection, ord.column.s, ord.desc) : collection \in {filtered} }

-----------------------------------------------------------------------------
(* pager and pageItems *)

\* usePager: pos = {start, end}
pagerPos(pg) ==
  LET start == (pg.page - 1) * pg.perPage
  IN [start |-> start, end |-> start + pg.perPage]

\* (mutant) the slice takes the element at end as well
pageItemsOfInclusiveEnd(sorted, pg) ==
  Slice(sorted, pagerPos(pg).start, pagerPos(pg).end + 1)

\* sortedItems.value.slice(pager.pos.start, pager.pos.end)
pageItemsOf(sorted, pg) == Slice(sorted, pagerPos(pg).start, pagerPos(pg).end)

-----------------------------------------------------------------------------
(* types: the per-type aggregate of the raw items *)

\* the for loop over items.value: typeMap as its entries in insertion order
RECURSIVE typeMapOf(_, _)
typeMapOf(its, typeMap) ==
  IF its = <<>> THEN typeMap
  ELSE LET item == Head(its)
           system == ItemField(item, spanSystem)
       IN IF IsFalsy(system) THEN typeMapOf(Tail(its), typeMap)
          ELSE LET type == splitTypeSystem(system.s)
                   known == \E i \in 1..Len(typeMap) : typeMap[i].type = type
                   created == IF known THEN typeMap
                              ELSE Append(typeMap, [type |-> type, numGroup |-> 0])
                   counted == [i \in 1..Len(created) |->
                                 IF created[i].type = type
                                 THEN [created[i] EXCEPT !.numGroup = @ + 1]
                                 ELSE created[i]]
               IN typeMapOf(Tail(its), counted)

\* for (type in typeMap) types.push(...); the result of orderBy(types, 'type')
\* is not assigned, so the list returned is the pushed one
typesOf(its) == typeMapOf(its, <<>>)

-----------------------------------------------------------------------------
(* error projection *)

\* v?.name
OptProp(v, name) == IF IsNullish(v) THEN Undefined ELSE Prop(v, name)

\* v ?? d
Nullish(v, d) == IF IsNullish(v) THEN d ELSE v

\* (mutant) error.value.response.data.<field>, without optional chaining
errorFieldUnchecked(err, field) ==
  IF IsNullish(err) \/ IsNullish(Prop(err, "response"))
     \/ IsNullish(Prop(Prop(err, "response"), "data"))
  THEN Throw
  ELSE Prop(Prop(Prop(err, "response"), "data"), field)

\* error.value?.response?.data?.<field>
errorField(err, field) == OptProp(OptProp(OptProp(err, "response"), "data"), field)

errorMessageOf(err) == Nullish(errorField(err, "message"), Str(""))

errorCodeOf(err) == Nullish(errorField(err, "code"), Str(""))

\* sql-formatter format(): upper-cases keywords and breaks lines
format(q) ==
  IF q.t # "string" THEN Throw
  ELSE IF q.s = "select 1" THEN Str("SELECT\n  1")
  ELSE IF q.s = "selec" THEN Str("selec")
  ELSE q

queryOf(err) == format(Nullish(errorField(err, "query"), Str("")))

\* the errors a failed request supplies
ErrorObject(response) == [t |-> "object", response |-> response]
ErrorData(message, code, query) ==
  [t |-> "object", message |-> message, code |-> code, query |-> query]
Messages == {Undefined, Str("not found")}
Codes == {Undefined, Null, Str("404")}
Queries == {Undefined, Str(""), Str("select 1")}
\* the errors a failed request supplies while the watchers are followed
WatchedErrors ==
  { ErrorObject(Undefined),
    ErrorObject([t |-> "object", data |-> ErrorData(Str("not found"), Str("404"), Str("select 1"))]) }
Errors ==
  { [t |-> "object"],
    ErrorObject(Undefined),
    ErrorObject([t |-> "object"]),
    ErrorObject([t |-> "object", data |-> Null]) }
  \cup { ErrorObject([t |-> "object", data |-> ErrorData(m, c, q)]) :
           m \in Messages, c \in Codes, q \in Queries }

-----------------------------------------------------------------------------
(* The derived views of the current state *)

items == itemsOf(data)
filteredItems == filteredItemsOf(items, typeFilter)
pageItems == pageItemsOf(sortedItems, pager)
\* (mutant) the aggregation reads the filtered items
typesOfFilteredItems == typesOf(filteredItemsOf(itemsOf(data), typeFilter))

types == typesOf(items)
errorMessage == errorMessageOf(error)
errorCode == errorCodeOf(error)
query == queryOf(error)

-----------------------------------------------------------------------------
(* The two watchers *)

Watchers == {"items", "filteredItems"}

\* (mutant) the filteredItems watcher runs first
WatcherOrderReversed == <<"filteredItems", "items">>

\* the watchers in the order they are created, which is the order a flush
\* runs the queued ones in
WatcherOrder == <<"items", "filteredItems">>

\* (mutant) the filteredItems watcher does not follow the raw items
watcherDepsFilterOnly(w) ==
  IF w = "items" THEN {"data"} ELSE {"typeFilter"}

\* the refs each watcher's source reads
watcherDeps(w) ==
  IF w = "items" THEN {"data"} ELSE {"data", "typeFilter"}

Triggered(ref) == { w \in Watchers : ref \in watcherDeps(w) }

\* the callback of watcher w: pager.numItem = <source>.length
watcherCallback(w, pg) ==
  IF w = "items" THEN [pg EXCEPT !.numItem = Len(items)]
  ELSE [pg EXCEPT !.numItem = Len(filteredItems)]

RECURSIVE runCallbacks(_, _)
runCallbacks(run, pg) ==
  IF run = <<>> THEN pg
  ELSE runCallbacks(Tail(run), watcherCallback(Head(run), pg))

-----------------------------------------------------------------------------
(* Inputs *)

TypeFilters ==
  { <<>>, << <<"db">> >>, << <<"rpc">>, <<"http">> >> }

\* the page sizes a configuration gives (cfg.pager.perPage)
PerPages == {1, 2}

Columns == { Null, Str(spanCountPerMin), Str(spanTime) }

-----------------------------------------------------------------------------
(* State machine *)

\* useSpanExplore(reqSource, cfg) has returned: no result yet, the default
\* order, and both immediate watchers have run
Init ==
  /\ data = Undefined
  /\ error = Undefined
  /\ typeFilter = <<>>
  /\ order = [column |-> Str(spanCountPerMin), desc |-> TRUE]
  /\ \E perPage \in PerPages :
       pager = [page |-> 1, perPage |-> perPage, numItem |-> 0]
  /\ sortedItems = <<>>
  /\ pending = {}
  /\ flushed = WatcherOrder

\* the request succeeds with a new result
Resolve ==
  \E groups \in QueryResults(WatchedPool, MaxWatched) :
    /\ data' = [t |-> "object", groups |-> groups]
    /\ error' = Undefined
    /\ pending' = pending \cup Triggered("data")
    /\ sortedItems' \in sortedItemsOf(filteredItemsOf(groups, typeFilter), order)
    /\ UNCHANGED <<typeFilter, order, pager, flushed>>

\* the request fails: the error is kept and the result is dropped
Reject ==
  \E err \in WatchedErrors :
    /\ data' = Undefined
    /\ error' = err
    /\ pending' = pending \cup Triggered("data")
    /\ sortedItems' = <<>>
    /\ UNCHANGED <<typeFilter, order, pager, flushed>>

\* the UI assigns typeFilter
SetTypeFilter ==
  \E filter \in TypeFilters :
    /\ typeFilter' = filter
    /\ pending' = pending \cup Triggered("typeFilter")
    /\ sortedItems' \in sortedItemsOf(filteredItemsOf(items, filter), order)
    /\ UNCHANGED <<data, error, order, pager, flushed>>

\* the UI changes the sort column or direction
SetOrder ==
  \E column \in Columns, desc \in BOOLEAN :
    /\ order' = [column |-> column, desc |-> desc]
    /\ sortedItems' \in sortedItemsOf(filteredItems, order')
    /\ UNCHANGED <<data, error, typeFilter, pager, pending, flushed>>

\* the UI selects a page
SetPage ==
  \E page \in 1..MaxPage :
    /\ pager' = [pager EXCEPT !.page = page]
    /\ UNCHANGED <<data, error, typeFilter, order, sortedItems, pending, flushed>>

\* the pre-render flush runs the queued watcher callbacks
Flush ==
  /\ pending # {}
  /\ LET run == SelectSeq(WatcherOrder, LAMBDA w : w \in pending)
     IN /\ pager' = runCallbacks(run, pager)
        /\ flushed' = run
  /\ pending' = {}
  /\ UNCHANGED <<data, error, typeFilter, order, sortedItems>>

Next ==
  \/ Resolve
  \/ Reject
  \/ SetTypeFilter
  \/ SetOrder
  \/ SetPage
  \/ Flush

Spec == Init /\ [][Next]_vars

-----------------------------------------------------------------------------
(* The derived views as functions of their inputs: any result (or error),  *)
(* type filter, order and page size, with the watchers run; the page is    *)
(* then changed freely                                                     *)

InitView ==
  /\ \/ /\ \E groups \in QueryResults(ItemPool, MaxItems) :
             data = [t |-> "object", groups |-> groups]
        /\ error = Undefined
        /\ typeFilter \in TypeFilters
     \/ /\ data = Undefined
        /\ error \in Errors
        /\ typeFilter = <<>>
  /\ \E column \in Columns, desc \in BOOLEAN :
       order = [column |-> column, desc |-> desc]
  /\ \E perPage \in PerPages :
       pager = runCallbacks(WatcherOrder, [page |-> 1, perPage |-> perPage, numItem |-> 0])
  /\ sortedItems \in sortedItemsOf(filteredItems, order)
  /\ pending = {}
  /\ flushed = WatcherOrder

NextView == SetPage

SpecView == InitView /\ [][NextView]_vars

-----------------------------------------------------------------------------
(* Properties *)

Range(seq) == { seq[i] : i \in 1..Len(seq) }

CountOf(seq, x) == Cardinality({ i \in 1..Len(seq) : seq[i] = x })

SameMultiset(a, b) ==
  /\ Len(a) = Len(b)
  /\ \A x \in Range(a) \cup Range(b) : CountOf(a, x) = CountOf(b, x)

IsSubsequence(a, b) ==
  \E f \in [1..Len(a) -> 1..Len(b)] :
    /\ \A i, j \in 1..Len(a) : i < j => f[i] < f[j]
    /\ \A i \in 1..Len(a) : a[i] = b[f[i]]

BothWatchers == <<"items", "filteredItems">>

\* C1: once the queued watcher callbacks have run, pager.numItem is the
\* length of filteredItems, not of the raw items
C1_NumItemIsFilteredLength ==
  pending = {} => pager.numItem = Len(filteredItems)

\* a new result has arrived under a non-empty filter that excludes part of it,
\* and both watchers have run
C1_Witness ==
  /\ pending = {}
  /\ flushed = BothWatchers
  /\ typeFilter # <<>>
  /\ 0 < Len(filteredItems)
  /\ Len(filteredItems) < Len(items)
  /\ pager.numItem = Len(filteredItems)

\* C10: a change of the raw items queues both watchers for the same flush,
\* a flush runs the items watcher before the filteredItems watcher, so the
\* filtered length is written last and after the flush numItem is never a raw
\* length that differs from the filtered one
C10_FilteredWriteIsLast ==
  /\ "items" \in pending => "filteredItems" \in pending
  /\ flushed \in { BothWatchers, <<"filteredItems">> }
  /\ pending = {} => ~(pager.numItem = Len(items) /\ Len(items) # Len(filteredItems))

\* both watchers ran in one flush over a result the filter empties
C10_Witness ==
  /\ pending = {}
  /\ flushed = BothWatchers
  /\ Len(items) = MaxWatched
  /\ filteredItems = <<>>
  /\ typeFilter # <<>>
  /\ pager.numItem = 0

\* the system field of an item is absent or empty
NoSystem(item) == item.system = Undefined \/ item.system = EmptyString

\* the classified type of an item that has a system field
TypeOf(item) == splitTypeSystem(item.system.s)

\* C2: filteredItems is the subsequence of the raw items that satisfy: the
\* filter is empty, or the system field is absent or empty, or the classified
\* type is a member of the filter
C2_FilterKeepsExactly ==
  filteredItems =
    SelectSeq(items, LAMBDA item :
      \/ typeFilter = <<>>
      \/ NoSystem(item)
      \/ TypeOf(item) \in Range(typeFilter))

\* a non-empty filter that keeps an item of a selected type and an item
\* without a system field, and excludes an item of another type
C2_Witness ==
  /\ typeFilter # <<>>
  /\ \E i \in 1..Len(filteredItems) : NoSystem(filteredItems[i])
  /\ \E i \in 1..Len(filteredItems) :
       ~NoSystem(filteredItems[i]) /\ TypeOf(filteredItems[i]) \in Range(typeFilter)
  /\ \E i \in 1..Len(items) :
       ~NoSystem(items[i]) /\ TypeOf(items[i]) \notin Range(typeFilter)

\* C3: pageItems is a subsequence of sortedItems, sortedItems is a
\* permutation of filteredItems, and every element of filteredItems is an
\* element of the raw items
C3_ViewsNest ==
  /\ IsSubsequence(pageItems, sortedItems)
  /\ SameMultiset(sortedItems, filteredItems)
  /\ Range(filteredItems) \subseteq Range(items)

\* a filtered, reordered and paged view
C3_Witness ==
  /\ Len(filteredItems) < Len(items)
  /\ sortedItems # filteredItems
  /\ pageItems # <<>>
  /\ Len(pageItems) < Len(sortedItems)
  /\ pager.page > 1

\* the sort key the specification gives an item: the value of the column, a
\* date-like value as its timestamp, an unparseable one as epoch 0
SpecKey(item) ==
  IF isDateField(order.column.s)
  THEN (IF NewDate(ItemField(item, order.column.s)).valid
        THEN NewDate(ItemField(item, order.column.s)).ms ELSE 0)
  ELSE ItemField(item, order.column.s).n

\* C4: sortedItems is the stable sort of filteredItems by the value of
\* order.column: unchanged when the column is null, otherwise consecutive keys
\* non-decreasing (ascending) or non-increasing (descending), and items with
\* equal keys in the relative order they had in filteredItems
C4_StableSort ==
  IF order.column = Null THEN sortedItems = filteredItems
  ELSE /\ \A i \in 1..(Len(sortedItems) - 1) :
            IF order.desc
            THEN SpecKey(sortedItems[i]) >= SpecKey(sortedItems[i + 1])
            ELSE SpecKey(sortedItems[i]) <= SpecKey(sortedItems[i + 1])
       /\ \A k \in { SpecKey(filteredItems[i]) : i \in 1..Len(filteredItems) } :
            SelectSeq(sortedItems, LAMBDA item : SpecKey(item) = k)
              = SelectSeq(filteredItems, LAMBDA item : SpecKey(item) = k)

\* lexicographic order of the type labels of the fixture
LabelRank(label) ==
  IF label = <<"db">> THEN 1 ELSE IF label = <<"http">> THEN 2 ELSE 3

\* C5: the types list is ordered ascending by its type label
C5_TypesAscending ==
  \A k \in 1..(Len(types) - 1) : LabelRank(types[k].type) < LabelRank(types[k + 1].type)

\* the raw items that have a system field, by index
Typed == { i \in 1..Len(items) : ~NoSystem(items[i]) }

\* C6: types has exactly one entry per distinct classified type among the raw
\* items that have a system field, numGroup counts the raw items of that type,
\* items without a system field count nowhere, and the list is that of the
\* unfiltered items whatever typeFilter is
C6_TypesCountRawItems ==
  /\ { types[k].type : k \in 1..Len(types) } = { TypeOf(items[i]) : i \in Typed }
  /\ \A k, l \in 1..Len(types) : types[k].type = types[l].type => k = l
  /\ \A k \in 1..Len(types) :
       types[k].numGroup = Cardinality({ i \in Typed : TypeOf(items[i]) = types[k].type })

\* two db items under one entry and an item without a system field under
\* none, while the filter in force excludes the db items
C6_Witness ==
  /\ Len(types) = 1
  /\ types[1] = [type |-> <<"db">>, numGroup |-> 2]
  /\ Cardinality(Typed) < Len(items)
  /\ typeFilter # <<>>
  /\ Len(filteredItems) < Len(items)

InvalidAt(i) == ~NewDate(ItemField(sortedItems[i], order.column.s)).valid
TimeAt(i) == NewDate(ItemField(sortedItems[i], order.column.s)).ms

\* C7: under a date-like column the items with an unparseable value sit
\* together at one end of sortedItems (first when ascending, last when
\* descending) and the items with valid timestamps are in timestamp order
C7_InvalidDatesAtOneEnd ==
  (order.column # Null /\ isDateField(order.column.s)) =>
    \A i, j \in 1..Len(sortedItems) :
      i < j =>
        /\ ~order.desc => (InvalidAt(j) => InvalidAt(i))
        /\ order.desc => (InvalidAt(i) => InvalidAt(j))
        /\ (~InvalidAt(i) /\ ~InvalidAt(j)) =>
             IF order.desc THEN TimeAt(i) >= TimeAt(j) ELSE TimeAt(i) <= TimeAt(j)

\* the page offsets are ordered and at most perPage apart, pageItems holds at
\* most perPage items, and the slice is empty when start is at or past the
\* count the watchers have set
C8_PageOffsets ==
  /\ 0 <= pagerPos(pager).start
  /\ pagerPos(pager).start <= pagerPos(pager).end
  /\ pagerPos(pager).end - pagerPos(pager).start <= pager.perPage
  /\ Len(pageItems) <= pager.perPage
  /\ (pending = {} /\ pagerPos(pager).start >= pager.numItem) => pageItems = <<>>

\* a step that sets the count leaves page and perPage alone
C8_CountLeavesPage ==
  [][pager'.numItem # pager.numItem =>
       (pager'.page = pager.page /\ pager'.perPage = pager.perPage)]_vars

\* C8: for every page >= 1, perPage > 0 and count n set by the pipeline,
\* 0 <= start <= end and end - start <= perPage, so pageItems never holds more
\* than perPage items; the pager does not change page itself, so the slice is
\* empty when start >= n
C8_PagerInvariant == []C8_PageOffsets /\ C8_CountLeavesPage

\* the count was set to a smaller one while page 2 was selected: the page is
\* kept and the slice is empty although there are items
C8_Witness ==
  /\ pending = {}
  /\ pager.page = 2
  /\ pager.numItem > 0
  /\ pagerPos(pager).start >= pager.numItem
  /\ pageItems = <<>>

\* the value at error.response.data.<field>, when every part of the path is there
HasField(err, field) ==
  /\ err # Undefined
  /\ "response" \in DOMAIN err /\ err.response.t = "object"
  /\ "data" \in DOMAIN err.response /\ err.response.data.t = "object"
  /\ field \in DOMAIN err.response.data
  /\ err.response.data[field].t = "string"

\* C9: errorMessage, errorCode and query are computed without failing for
\* every error, each is the empty string when a part of its path is missing,
\* and errorMessage and errorCode equal the field when it is present
C9_ErrorProjection ==
  /\ Throw \notin {errorMessage, errorCode, query}
  /\ errorMessage = IF HasField(error, "message") THEN error.response.data.message ELSE Str("")
  /\ errorCode = IF HasField(error, "code") THEN error.response.data.code ELSE Str("")
  /\ ~HasField(error, "query") => query = Str("")

\* an error whose response has no data
C9_Witness ==
  /\ error = ErrorObject([t |-> "object"])
  /\ errorMessage = Str("")
  /\ errorCode = Str("")
  /\ query = Str("")


====
